---- MODULE Spec2Model ----
(***************************************************************************)
(* Model of scripts/gha/print_matrix_configuration.py (the matrix/config   *)
(* resolver, its device filter, its diff filter and its command line) and  *)
(* of scripts/gha/github.py (the REST client).                             *)
(*                                                                         *)
(* Python strings are TLA+ strings; characters are read with SubSeq.       *)
(* Python lists are sequences, dicts are records/functions, None is the    *)
(* value None below.  Every call is one action: it records the call in    *)
(* `op` and `args` and its outcome in `result`, `stdout`, `stderr`, `log`,  *)
(* the HTTP requests `sent` and the `files` written.                        *)
(***************************************************************************)
EXTENDS Integers, Sequences, FiniteSets, TLC

VARIABLES op, args, result, stdout, stderr, log, sent, files

vars == <<op, args, result, stdout, stderr, log, sent, files>>

(***************************************************************************)
(* Bounds of the model.                                                    *)
(***************************************************************************)
\* the largest number of changed paths a diff lists
MaxPaths == 2
\* the longest device list handed to filter_devices
MaxDevices == 2

(***************************************************************************)
(* Python values and string primitives.                                    *)
(***************************************************************************)
None == [py_none |-> TRUE]

\* outcomes of a call: a returned value or an uncaught exception
Return(v) == [status |-> "return", value |-> v]
Raise(e) == [status |-> "raise", error |-> e]

\* a local variable: value is evaluated once and handed to Body
With(value, Body(_)) == CHOOSE r \in {Body(v) : v \in {value}} : TRUE

\* str(b) for a bool
StrBool(b) == IF b THEN "True" ELSE "False"

\* s[i] for a string s (1-based)
CharAt(s, i) == SubSeq(s, i, i)

\* the characters of the modelled strings in code point order (ord)
CharOrder == " \",-./0123456789:ABCDEFGHIJKLMNOPQRSTUVWXYZ[]_abcdefghijklmnopqrstuvwxyz"

Ord(c) == CHOOSE i \in 1..Len(CharOrder) : CharAt(CharOrder, i) = c

UpperChars == "ABCDEFGHIJKLMNOPQRSTUVWXYZ"
LowerChars == "abcdefghijklmnopqrstuvwxyz"

\* str.lower() on one character, as re.IGNORECASE compares
LowerChar(c) ==
  IF \E i \in 1..Len(UpperChars) : CharAt(UpperChars, i) = c
  THEN CharAt(LowerChars, CHOOSE i \in 1..Len(UpperChars) : CharAt(UpperChars, i) = c)
  ELSE c

\* a < b for Python strings: lexicographic by code point; i is the first
\* place where a and b differ
StrLess(a, b) ==
  \E i \in 1..Len(b) :
    /\ i <= Len(a) + 1
    /\ SubSeq(a, 1, i - 1) = SubSeq(b, 1, i - 1)
    /\ (i = Len(a) + 1 \/ Ord(CharAt(a, i)) < Ord(CharAt(b, i)))

\* sorted(S) for a set S of strings: the i-th is the one with i - 1 below it
sorted(S) ==
  [i \in 1..Cardinality(S) |->
     CHOOSE x \in S : Cardinality({y \in S : StrLess(y, x)}) = i - 1]

\* set(l) for a list l
ToSet(l) == {l[i] : i \in DOMAIN l}

\* the places of character c in s
FindChar(s, c) == {i \in 1..Len(s) : CharAt(s, i) = c}

\* s.split(c): the list of the pieces of s between the separators c
split(s, c) ==
  With(FindChar(s, c), LAMBDA seps :
    LET n == Cardinality(seps) + 1
        \* the k-th separator; the ends of s stand for the 0-th and the n-th
        SepAt(k) ==
          IF k = 0 THEN 0
          ELSE IF k = n THEN Len(s) + 1
          ELSE CHOOSE i \in seps : Cardinality({j \in seps : j < i}) = k - 1
    IN [k \in 1..n |-> SubSeq(s, SepAt(k - 1) + 1, SepAt(k) - 1)])

\* c.join(l); join_to joins the first n items
RECURSIVE join_to(_, _, _)
join_to(c, l, n) ==
  IF n = 0 THEN ""
  ELSE IF n = 1 THEN l[1]
  ELSE join_to(c, l, n - 1) \o c \o l[n]

join(c, l) == join_to(c, l, Len(l))

(***************************************************************************)
(* The configuration tables.                                               *)
(***************************************************************************)
DEFAULT_WORKFLOW == "desktop"
EXPANDED_KEY == "expanded"

PARAMETERS ==
  [desktop |->
     [matrix |->
        [os |-> <<"ubuntu-latest", "macos-latest">>,
         build_type |-> <<"Release", "Debug">>,
         architecture |-> <<"x64", "x86">>,
         msvc_runtime |-> <<"static", "dynamic">>,
         xcode_version |-> <<"11.7">>,
         python_version |-> <<"3.7">>,
         expanded |->
           [os |-> <<"ubuntu-latest", "macos-latest", "windows-latest">>,
            xcode_version |-> <<"11.7", "12.4">>]]],
   android |->
     [matrix |->
        [os |-> <<"ubuntu-latest", "macos-latest", "windows-latest">>,
         architecture |-> <<"x64">>,
         python_version |-> <<"3.7">>,
         expanded |->
           [os |-> <<"ubuntu-latest", "macos-latest", "windows-latest">>]]],
   integration_tests |->
     [matrix |->
        [os |-> <<"ubuntu-latest", "macos-latest", "windows-latest">>,
         platform |-> <<"Desktop", "Android", "iOS", "tvOS">>,
         ssl_lib |-> <<"openssl", "boringssl">>,
         android_device |-> <<"android_latest", "emulator_target">>,
         ios_device |-> <<"ios_target", "simulator_target">>,
         tvos_device |-> <<"tvos_simulator_target">>,
         build_type |-> <<"Debug">>,
         architecture_windows_linux |-> <<"x64">>,
         architecture_macos |-> <<"x64">>,
         msvc_runtime |-> <<"dynamic">>,
         cpp_compiler_windows |-> <<"VisualStudio2019">>,
         cpp_compiler_linux |-> <<"clang-11.0">>,
         xcode_version |-> <<"12">>,
         ndk_version |-> <<"r22b">>,
         platform_version |-> <<"28">>,
         build_tools_version |-> <<"28.0.3">>],
      config |->
        [apis |-> "admob,analytics,auth,database,dynamic_links,firestore,functions,installations,messaging,remote_config,storage",
         mobile_test_on |-> "real,virtual"]],
   ios |->
     [matrix |->
        [xcode_version |-> <<"12">>,
         expanded |-> [xcode_version |-> <<"12", "12.4">>]]]]

\* the "type" of each entry of TEST_DEVICES
TEST_DEVICES ==
  [android_min |-> [type |-> "real"],
   android_target |-> [type |-> "real"],
   android_latest |-> [type |-> "real"],
   emulator_min |-> [type |-> "virtual"],
   emulator_target |-> [type |-> "virtual"],
   emulator_latest |-> [type |-> "virtual"],
   ios_min |-> [type |-> "real"],
   ios_target |-> [type |-> "real"],
   ios_latest |-> [type |-> "real"],
   simulator_min |-> [type |-> "virtual"],
   simulator_target |-> [type |-> "virtual"],
   simulator_latest |-> [type |-> "virtual"],
   tvos_simulator_target |-> [type |-> "virtual"]]

\* d.get(k)
Get(d, k) == IF k \in DOMAIN d THEN d[k] ELSE None

\* bool(d) for a dict or None
Truthy(d) == d # None /\ DOMAIN d # {}

(***************************************************************************)
(* get_value.  A search block is named by its place in PARAMETERS:         *)
(* <<workflow, parm_type_key>> is the standard block, with "expanded"      *)
(* appended its expanded sub-block; Block gives the dict (or None).        *)
(***************************************************************************)
Block(ref) ==
  LET parm_block == Get(Get(PARAMETERS, ref[1]), ref[2])
  IN IF Len(ref) = 2 THEN parm_block ELSE parm_block[EXPANDED_KEY]

parm_type_key(config_parms_only) == IF config_parms_only THEN "config" ELSE "matrix"

\* mutant of default_search_blocks: the expanded default block is appended
\* behind the standard one instead of inserted in front of it
default_search_blocks_appended(use_expanded, kind) ==
  LET default_workflow_parm_block == Get(Get(PARAMETERS, DEFAULT_WORKFLOW), kind)
      std == <<DEFAULT_WORKFLOW, kind>>
  IN IF ~use_expanded THEN Return(<<std>>)
     ELSE IF default_workflow_parm_block = None THEN Raise("TypeError")
     ELSE IF EXPANDED_KEY \in DOMAIN default_workflow_parm_block
          THEN Return(<<std, <<DEFAULT_WORKFLOW, kind, EXPANDED_KEY>>>>)
          ELSE Return(<<std>>)

\* search_blocks after the default workflow's blocks are inserted; the test
\* `EXPANDED_KEY in default_workflow_parm_block` raises TypeError on None
default_search_blocks(use_expanded, kind) ==
  LET default_workflow_parm_block == Get(Get(PARAMETERS, DEFAULT_WORKFLOW), kind)
      std == <<DEFAULT_WORKFLOW, kind>>
  IN IF ~use_expanded THEN Return(<<std>>)
     ELSE IF default_workflow_parm_block = None THEN Raise("TypeError")
     ELSE IF EXPANDED_KEY \in DOMAIN default_workflow_parm_block
          THEN Return(<<<<DEFAULT_WORKFLOW, kind, EXPANDED_KEY>>, std>>)
          ELSE Return(<<std>>)

\* mutant of workflow_search_blocks: the workflow's expanded block is
\* appended behind its standard block instead of inserted in front of it
workflow_search_blocks_appended(workflow, use_expanded, kind) ==
  IF workflow # DEFAULT_WORKFLOW
  THEN LET workflow_block == Get(PARAMETERS, workflow)
       IN IF Truthy(workflow_block)
          THEN LET workflow_parm_block == Get(workflow_block, kind)
               IN IF Truthy(workflow_parm_block)
                  THEN IF use_expanded /\ EXPANDED_KEY \in DOMAIN workflow_parm_block
                       THEN <<<<workflow, kind>>, <<workflow, kind, EXPANDED_KEY>>>>
                       ELSE <<<<workflow, kind>>>>
                  ELSE <<>>
          ELSE <<>>
  ELSE <<>>

\* the blocks the named workflow inserts in front of the default ones
workflow_search_blocks(workflow, use_expanded, kind) ==
  IF workflow # DEFAULT_WORKFLOW
  THEN LET workflow_block == Get(PARAMETERS, workflow)
       IN IF Truthy(workflow_block)
          THEN LET workflow_parm_block == Get(workflow_block, kind)
               IN IF Truthy(workflow_parm_block)
                  THEN IF use_expanded /\ EXPANDED_KEY \in DOMAIN workflow_parm_block
                       THEN <<<<workflow, kind, EXPANDED_KEY>>, <<workflow, kind>>>>
                       ELSE <<<<workflow, kind>>>>
                  ELSE <<>>
          ELSE <<>>
  ELSE <<>>

\* search_blocks as the loop of get_value finds it, or the exception raised
\* while building it
search_blocks(workflow, use_expanded, kind) ==
  With(default_search_blocks(use_expanded, kind), LAMBDA d :
    IF d.status = "raise" THEN d
    ELSE Return(workflow_search_blocks(workflow, use_expanded, kind) \o d.value))

\* the loop over search_blocks from index i: the first block holding parm_key
\* (`parm_key in None` raises TypeError), or KeyError after the last one
RECURSIVE search_from(_, _, _)
search_from(blocks, i, parm_key) ==
  IF i > Len(blocks) THEN Raise("KeyError")
  ELSE IF Block(blocks[i]) = None THEN Raise("TypeError")
  ELSE IF parm_key \in DOMAIN Block(blocks[i]) THEN Return(blocks[i])
  ELSE search_from(blocks, i + 1, parm_key)

\* the block get_value returns from, or the exception it raises
found_block(workflow, use_expanded, parm_key, config_parms_only) ==
  With(search_blocks(workflow, use_expanded, parm_type_key(config_parms_only)),
       LAMBDA blocks :
         IF blocks.status = "raise" THEN blocks
         ELSE search_from(blocks.value, 1, parm_key))

get_value(workflow, use_expanded, parm_key, config_parms_only) ==
  With(found_block(workflow, use_expanded, parm_key, config_parms_only),
       LAMBDA found :
         IF found.status = "raise" THEN found
         ELSE Return(Block(found.value)[parm_key]))

(***************************************************************************)
(* filter_devices.  A value that may be a str or a list, or a str or None, *)
(* is boxed: Str(s), List(l), None.                                        *)
(***************************************************************************)
Str(s) == [str |-> s]
List(l) == [list |-> l]

\* re.search of a literal pattern / `pat in s` for strings
Contains(s, pat) ==
  \E i \in 1..(Len(s) - Len(pat) + 1) : SubSeq(s, i, i + Len(pat) - 1) = pat

\* `x in c` for a string x and a boxed str (substring) or list (membership)
PyIn(x, c) ==
  IF "str" \in DOMAIN c THEN Contains(c.str, x)
  ELSE \E i \in DOMAIN c.list : c.list[i] = x

\* mutant of filter_devices: only the first requested type is compared
filter_devices_first_type(devices, device_type) ==
  IF \E i \in DOMAIN devices : Get(TEST_DEVICES, devices[i]) = None
  THEN Raise("AttributeError")
  ELSE LET Kept(device) ==
             /\ "list" \in DOMAIN device_type
             /\ device_type.list # <<>>
             /\ TEST_DEVICES[device].type = device_type.list[1]
       IN Return(SelectSeq(devices, Kept))

\* TEST_DEVICES.get(device) is None for an unregistered device and .get on it
\* raises AttributeError when list() runs the filter
filter_devices(devices, device_type) ==
  IF \E i \in DOMAIN devices : Get(TEST_DEVICES, devices[i]) = None
  THEN Raise("AttributeError")
  ELSE LET Kept(device) == PyIn(TEST_DEVICES[device].type, device_type)
       IN Return(SelectSeq(devices, Kept))

(***************************************************************************)
(* filter_values_on_diff.                                                  *)
(***************************************************************************)
\* s.rstrip(c)
rstrip(s, c) ==
  With({i \in 1..Len(s) : CharAt(s, i) # c}, LAMBDA kept :
    IF kept = {} THEN ""
    ELSE SubSeq(s, 1, CHOOSE i \in kept : \A j \in kept : j <= i))

\* what `git diff --name-only` prints for a set of changed paths: one path a
\* line, in path order
git_diff_output(changed) ==
  IF changed = {} THEN "" ELSE join("\n", sorted(changed)) \o "\n"

\* file_list: the set of the lines of the output
file_list(output) == ToSet(split(rstrip(output, "\n"), "\n"))

\* the orders in which `for path in file_list` may visit a set
IterationOrders(S) ==
  With(Cardinality(S), LAMBDA n :
    {f \in [1..n -> S] : \A i, j \in 1..n : f[i] = f[j] => i = j})

custom_triggers ==
  [external |-> None,
   release_build_files |-> None,
   auth |-> Str("auth,functions,database,firestore,storage")]

\* bool(v) for a boxed str or None
TruthyStr(v) == v # None /\ v.str # ""

\* mutant of apis_loop: a path outside the requested APIs is skipped instead
\* of ending the filtering
RECURSIVE apis_loop_skip_unknown(_, _, _, _, _)
apis_loop_skip_unknown(order, i, value, requested_api_list, filtered_api_list) ==
  IF i > Len(order)
  THEN With(join(",", sorted(filtered_api_list)), LAMBDA joined :
         [value |-> joined,
          stderr |-> "::warning::Autodetected APIs: " \o joined \o "\n"])
  ELSE LET path == order[i]
           topdir == split(path, "/")[1]
           triggered == topdir \in DOMAIN custom_triggers
           added == IF triggered /\ TruthyStr(custom_triggers[topdir])
                    THEN filtered_api_list \cup ToSet(split(custom_triggers[topdir].str, ","))
                    ELSE filtered_api_list
       IN IF topdir \in requested_api_list
          THEN apis_loop_skip_unknown(order, i + 1, value, requested_api_list,
                                      added \cup {topdir})
          ELSE apis_loop_skip_unknown(order, i + 1, value, requested_api_list, added)

\* the loop `for path in file_list` of the "apis" branch from the i-th path
\* of the iteration order: the value returned and the line written to stderr
RECURSIVE apis_loop(_, _, _, _, _)
apis_loop(order, i, value, requested_api_list, filtered_api_list) ==
  IF i > Len(order)
  THEN With(join(",", sorted(filtered_api_list)), LAMBDA joined :
         [value |-> joined,
          stderr |-> "::warning::Autodetected APIs: " \o joined \o "\n"])
  ELSE LET path == order[i]
           topdir == split(path, "/")[1]
           triggered == topdir \in DOMAIN custom_triggers
           added == IF triggered
                    THEN filtered_api_list \cup ToSet(split(custom_triggers[topdir].str, ","))
                    ELSE filtered_api_list
       IN IF Len(path) = 0
          THEN apis_loop(order, i + 1, value, requested_api_list, filtered_api_list)
          ELSE IF triggered /\ ~TruthyStr(custom_triggers[topdir])
          THEN apis_loop(order, i + 1, value, requested_api_list, filtered_api_list)
          ELSE IF topdir \in requested_api_list
          THEN apis_loop(order, i + 1, value, requested_api_list, added \cup {topdir})
          ELSE [value |-> value,
                stderr |-> "Defaulting to all APIs: " \o value \o "\n"]

\* str.lower(); lower_to lowers the first n characters
RECURSIVE lower_to(_, _)
lower_to(s, n) ==
  IF n = 0 THEN "" ELSE lower_to(s, n - 1) \o LowerChar(CharAt(s, n))

lower(s) == lower_to(s, Len(s))

\* re.search(pat, s, re.IGNORECASE) for a literal pattern
ContainsI(s, pat) == Contains(lower(s), lower(pat))

\* re.search('^' + pat, s)
StartsWith(s, pat) == Len(s) >= Len(pat) /\ SubSeq(s, 1, Len(pat)) = pat

\* re.search(pat + '$', s), s holding no newline
EndsWith(s, pat) ==
  Len(s) >= Len(pat) /\ SubSeq(s, Len(s) - Len(pat) + 1, Len(s)) = pat

\* re.search(r'[_./]ios[_./]', s, re.IGNORECASE)
MatchesIosWord(s) ==
  \E i \in 1..(Len(s) - 4) :
    /\ CharAt(s, i) \in {"_", ".", "/"}
    /\ lower(SubSeq(s, i + 1, i + 3)) = "ios"
    /\ CharAt(s, i + 4) \in {"_", ".", "/"}

IgnorablePath(path) ==
  \/ StartsWith(path, "external/")
  \/ StartsWith(path, "release_build_files/")
  \/ ContainsI(path, "readme")

AndroidPath(path) ==
  \/ ContainsI(path, "android")
  \/ EndsWith(path, ".java")
  \/ Contains(path, "gradle")

IosPath(path) ==
  \/ MatchesIosWord(path)
  \/ ContainsI(path, "apple")
  \/ EndsWith(path, ".mm")
  \/ ContainsI(path, "xcode")
  \/ Contains(path, "Pod")

DesktopPath(path) == Contains(path, "desktop")

\* mutant of PlatformsOf: a path of the desktop pattern adds Desktop whether
\* or not it was requested
PlatformsOf_desktop_unrequested(path, requested_platform_list) ==
  (IF "Android" \in requested_platform_list /\ AndroidPath(path) THEN {"Android"} ELSE {})
  \cup (IF "iOS" \in requested_platform_list /\ IosPath(path) THEN {"iOS"} ELSE {})
  \cup (IF DesktopPath(path) THEN {"Desktop"} ELSE {})

\* the platforms one path adds to filtered_platform_list
PlatformsOf(path, requested_platform_list) ==
  (IF "Android" \in requested_platform_list /\ AndroidPath(path) THEN {"Android"} ELSE {})
  \cup (IF "iOS" \in requested_platform_list /\ IosPath(path) THEN {"iOS"} ELSE {})
  \cup (IF "Desktop" \in requested_platform_list /\ DesktopPath(path) THEN {"Desktop"} ELSE {})

\* mutant of platform_loop: the fallback returns the list as it was passed
RECURSIVE platform_loop_unsorted(_, _, _, _, _)
platform_loop_unsorted(order, i, value, requested_platform_list, filtered_platform_list) ==
  IF i > Len(order)
  THEN With(sorted(filtered_platform_list), LAMBDA platforms :
         [value |-> platforms,
          stderr |-> "::warning::Autodetected platforms: "
                       \o join(",", platforms) \o "\n"])
  ELSE LET path == order[i]
           added == PlatformsOf(path, requested_platform_list)
           matched == IgnorablePath(path) \/ added # {}
       IN IF Len(path) = 0
          THEN platform_loop_unsorted(order, i + 1, value, requested_platform_list,
                                      filtered_platform_list)
          ELSE IF matched
          THEN platform_loop_unsorted(order, i + 1, value, requested_platform_list,
                                      filtered_platform_list \cup added)
          ELSE [value |-> value,
                stderr |-> "Defaulting to all platforms: "
                             \o join(",", sorted(requested_platform_list)) \o "\n"]

\* the loop `for path in file_list` of the "platform" branch
RECURSIVE platform_loop(_, _, _, _, _)
platform_loop(order, i, value, requested_platform_list, filtered_platform_list) ==
  IF i > Len(order)
  THEN With(sorted(filtered_platform_list), LAMBDA platforms :
         [value |-> platforms,
          stderr |-> "::warning::Autodetected platforms: "
                       \o join(",", platforms) \o "\n"])
  ELSE LET path == order[i]
           added == PlatformsOf(path, requested_platform_list)
           matched == IgnorablePath(path) \/ added # {}
       IN IF Len(path) = 0
          THEN platform_loop(order, i + 1, value, requested_platform_list,
                             filtered_platform_list)
          ELSE IF matched
          THEN platform_loop(order, i + 1, value, requested_platform_list,
                             filtered_platform_list \cup added)
          ELSE With(sorted(requested_platform_list), LAMBDA platforms :
                 [value |-> platforms,
                  stderr |-> "Defaulting to all platforms: "
                               \o join(",", platforms) \o "\n"])

\* filter_values_on_diff(parm_key, value, auto_diff) when the set file_list
\* is visited in the given order: the value returned and what stderr gets
filter_values_on_diff(parm_key, value, order) ==
  IF parm_key = "apis"
  THEN With(ToSet(split(value, ",")), LAMBDA requested_api_list :
         With(apis_loop(order, 1, value, requested_api_list, {}), LAMBDA r :
           [value |-> r.value, stderr |-> <<r.stderr>>]))
  ELSE IF parm_key = "platform"
  THEN With(platform_loop(order, 1, value, ToSet(value), {}), LAMBDA r :
         [value |-> r.value, stderr |-> <<r.stderr>>])
  ELSE [value |-> value, stderr |-> <<>>]

(***************************************************************************)
(* print_value, parse_cmdline_args and main.                               *)
(***************************************************************************)
\* json.dumps(s) for a str without characters that need escaping
dumps_str(s) == "\"" \o s \o "\""

dumps_items(l) == [i \in DOMAIN l |-> dumps_str(l[i])]

\* json.dumps(l) for a list of str
dumps_list(l) == "[" \o join(", ", dumps_items(l)) \o "]"

\* the line print_value writes; is_str tells a str from a list of str
print_value(value, is_str) == IF is_str THEN dumps_str(value) ELSE dumps_list(value)

\* argparse type=bool on --expanded: bool(s) of the string given, False when
\* the flag is absent
parse_expanded(raw) == raw # None /\ raw.str # ""

\* the message of the KeyError of get_value
KeyErrorMessage(workflow, use_expanded, parm_key, config_parms_only) ==
  "Parameter key: '" \o parm_key \o "' of type '" \o parm_type_key(config_parms_only)
    \o "' not found for workflow '" \o workflow \o "' (expanded = "
    \o StrBool(use_expanded) \o ") ."

\* the end of a run: what was printed, what stderr got, and the exception
\* that ended the process (None when main returned)
Exit(out, err, exc) == [stdout |-> out, stderr |-> err, result |-> exc]

\* mutant of main_query: the lookup's exception is caught and null is printed
main_query_swallow(a, order) ==
  With(get_value(a.workflow, parse_expanded(a.expanded), a.parm_key, a.config),
       LAMBDA found :
         IF found.status = "raise"
         THEN Exit(<<"null">>, <<>>, Return(None))
         ELSE Exit(<<print_value(found.value, a.config)>>, <<>>, Return(None)))

\* main after the override and device branches: get_value, filter_devices,
\* filter_values_on_diff, print_value.  Matrix values are lists of str and
\* config values are str, so the printed value is a str exactly when
\* args.config is set.
main_query(a, order) ==
  With(get_value(a.workflow, parse_expanded(a.expanded), a.parm_key, a.config),
       LAMBDA found :
    IF found.status = "raise"
    THEN Exit(<<>>,
              <<found.error \o ": "
                  \o (IF found.error = "KeyError"
                      THEN dumps_str(KeyErrorMessage(a.workflow, parse_expanded(a.expanded),
                                                     a.parm_key, a.config))
                      ELSE "argument of type 'NoneType' is not iterable")>>,
              found)
    ELSE
  With(IF a.workflow = "integration_tests"
          /\ (a.parm_key = "android_device" \/ a.parm_key = "ios_device")
       THEN filter_devices(found.value, a.device_type)
       ELSE found,
       LAMBDA by_device :
    IF by_device.status = "raise"
    THEN Exit(<<>>, <<by_device.error>>, by_device)
    ELSE
  With(IF TruthyStr(a.auto_diff)
       THEN filter_values_on_diff(a.parm_key, by_device.value, order)
       ELSE [value |-> by_device.value, stderr |-> <<>>],
       LAMBDA by_diff :
    Exit(<<print_value(by_diff.value, a.config)>>, by_diff.stderr, Return(None)))))

\* main, for parsed arguments a and the order in which the diff is visited
main(a, order) ==
  IF TruthyStr(a.override)
  THEN Exit(<<IF ~a.config
              THEN print_value(split(a.override.str, ","), FALSE)
              ELSE print_value(a.override.str, TRUE)>>,
            <<>>, Return(None))
  ELSE IF a.device
  THEN IF Get(TEST_DEVICES, a.parm_key) = None
       THEN Exit(<<>>, <<"AttributeError: 'NoneType' object has no attribute 'get'">>,
                 Raise("AttributeError"))
       ELSE Exit(<<TEST_DEVICES[a.parm_key].type>>, <<>>, Return(None))
  ELSE main_query(a, order)

(***************************************************************************)
(* The REST client (github.py).  A parsed JSON value is boxed: Obj(record) *)
(* for an object, Arr(sequence) for an array, JStr(s) for a string.        *)
(***************************************************************************)
OWNER == "firebase"
REPO == "firebase-cpp-sdk"
BASE_URL == "https://api.github.com"
FIREBASE_URL == BASE_URL \o "/repos/" \o OWNER \o "/" \o REPO

Obj(r) == [object |-> r]
Arr(l) == [array |-> l]
JStr(x) == [string |-> x]

\* str(n) for a natural number n
RECURSIVE IntStr(_)
IntStr(n) ==
  IF n < 10 THEN CharAt("0123456789", n + 1)
  ELSE IntStr(n \div 10) \o CharAt("0123456789", (n % 10) + 1)

AcceptHeader == [Accept |-> "application/vnd.github.v3+json"]

AuthHeaders(token) ==
  [Accept |-> "application/vnd.github.v3+json", Authorization |-> "token " \o token]

Request(method, url, headers, data) ==
  [method |-> method, url |-> url, headers |-> headers, data |-> data]

\* the outcome of a client call: requests sent, lines logged, the value
\* returned or exception raised, files written
Outcome(req, lines, res, written) ==
  [sent |-> <<req>>, log |-> lines, result |-> res, files |-> written]

\* requests.<method>(...) raising (no response): nothing is logged
Failed(response) == "exception" \in DOMAIN response

\* the line logging.info writes
LogLine(fn, url, response) ==
  fn \o ": " \o url \o " response: <Response [" \o response.status_code \o "]>"

\* response.json()
response_json(response) ==
  IF "json" \in DOMAIN response THEN Return(response.json) ELSE Raise("JSONDecodeError")

\* response.json()[key]
response_json_member(response, key) ==
  With(response_json(response), LAMBDA parsed :
    IF parsed.status = "raise" THEN parsed
    ELSE IF "object" \notin DOMAIN parsed.value THEN Raise("TypeError")
    ELSE IF key \notin DOMAIN parsed.value.object THEN Raise("KeyError")
    ELSE Return(parsed.value.object[key]))

\* one request whose response is only logged
LoggedCall(fn, req, response) ==
  IF Failed(response) THEN Outcome(req, <<>>, Raise(response.exception), <<>>)
  ELSE Outcome(req, <<LogLine(fn, req.url, response)>>, Return(None), <<>>)

\* one request whose response is logged and then read into the return value
ReturningCall(fn, req, response, value) ==
  IF Failed(response) THEN Outcome(req, <<>>, Raise(response.exception), <<>>)
  ELSE Outcome(req, <<LogLine(fn, req.url, response)>>, value, <<>>)

create_issue(token, title, label, response) ==
  ReturningCall("create_issue",
                Request("POST", FIREBASE_URL \o "/issues", AuthHeaders(token),
                        Str("{\"title\": " \o dumps_str(title) \o ", \"labels\": "
                              \o dumps_list(<<label>>) \o "}")),
                response, response_json(response))

\* mutant of update_issue: the parsed response is returned, as in create_issue
update_issue_returning(token, issue_number, data, response) ==
  ReturningCall("update_issue",
                Request("PATCH", FIREBASE_URL \o "/issues/" \o IntStr(issue_number),
                        AuthHeaders(token), Str(data)),
                response, response_json(response))

\* data is the JSON text json.dumps(data) gives
update_issue(token, issue_number, data, response) ==
  LoggedCall("update_issue",
             Request("PATCH", FIREBASE_URL \o "/issues/" \o IntStr(issue_number),
                     AuthHeaders(token), Str(data)),
             response)

\* the callers of update_issue return nothing, whatever it returns
open_issue(token, issue_number, response) ==
  [update_issue(token, issue_number, "{\"state\": \"open\"}", response)
     EXCEPT !.result = IF @.status = "raise" THEN @ ELSE Return(None)]

close_issue(token, issue_number, response) ==
  [update_issue(token, issue_number, "{\"state\": \"closed\"}", response)
     EXCEPT !.result = IF @.status = "raise" THEN @ ELSE Return(None)]

update_issue_comment(token, issue_number, comment, response) ==
  [update_issue(token, issue_number, "{\"body\": " \o dumps_str(comment) \o "}", response)
     EXCEPT !.result = IF @.status = "raise" THEN @ ELSE Return(None)]

search_issues_by_label(label, response) ==
  ReturningCall("search_issues_by_label",
                Request("GET",
                        BASE_URL \o "/search/issues?q=repo:" \o OWNER \o "/" \o REPO
                          \o "+label:\"" \o label \o "\"+is:issue",
                        AcceptHeader, None),
                response, response_json_member(response, "items"))

list_comments(issue_number, response) ==
  ReturningCall("list_comments",
                Request("GET",
                        FIREBASE_URL \o "/issues/" \o IntStr(issue_number) \o "/comments",
                        AcceptHeader, None),
                response, response_json(response))

add_comment(token, issue_number, comment, response) ==
  LoggedCall("add_comment",
             Request("POST",
                     FIREBASE_URL \o "/issues/" \o IntStr(issue_number) \o "/comments",
                     AuthHeaders(token), Str("{\"body\": " \o dumps_str(comment) \o "}")),
             response)

update_comment(token, comment_id, comment, response) ==
  LoggedCall("update_comment",
             Request("PATCH", FIREBASE_URL \o "/issues/comments/" \o IntStr(comment_id),
                     AuthHeaders(token), Str("{\"body\": " \o dumps_str(comment) \o "}")),
             response)

delete_comment(token, comment_id, response) ==
  LoggedCall("delete_comment",
             Request("DELETE", FIREBASE_URL \o "/issues/comments/" \o IntStr(comment_id),
                     AuthHeaders(token), None),
             response)

add_label(token, issue_number, label, response) ==
  LoggedCall("add_label",
             Request("POST",
                     FIREBASE_URL \o "/issues/" \o IntStr(issue_number) \o "/labels",
                     AuthHeaders(token), Str(dumps_list(<<label>>))),
             response)

delete_label(token, issue_number, label, response) ==
  LoggedCall("delete_label",
             Request("DELETE",
                     FIREBASE_URL \o "/issues/" \o IntStr(issue_number) \o "/labels/" \o label,
                     AuthHeaders(token), None),
             response)

list_artifacts(token, run_id, response) ==
  ReturningCall("list_artifacts",
                Request("GET",
                        FIREBASE_URL \o "/actions/runs/" \o IntStr(run_id) \o "/artifacts",
                        AuthHeaders(token), None),
                response, response_json_member(response, "artifacts"))

\* the raw body is copied to output_path
download_artifact(token, artifact_id, output_path, response) ==
  LET req == Request("GET",
                     FIREBASE_URL \o "/actions/artifacts/" \o IntStr(artifact_id) \o "/zip",
                     AuthHeaders(token), None)
  IN IF Failed(response) THEN Outcome(req, <<>>, Raise(response.exception), <<>>)
     ELSE Outcome(req, <<LogLine("download_artifact", req.url, response)>>, Return(None),
                  <<[path |-> output_path, content |-> response.raw]>>)

(***************************************************************************)
(* Inputs of the calls.                                                    *)
(***************************************************************************)
Workflows == DOMAIN PARAMETERS \cup {"nonexistent_workflow"}

BlockKeys(w) ==
  LET wb == PARAMETERS[w]
      m == wb.matrix
  IN DOMAIN m
     \cup (IF EXPANDED_KEY \in DOMAIN m THEN DOMAIN m[EXPANDED_KEY] ELSE {})
     \cup (IF "config" \in DOMAIN wb THEN DOMAIN wb.config ELSE {})

ParmKeys == UNION {BlockKeys(w) : w \in DOMAIN PARAMETERS} \cup {"not_a_real_key"}

DeviceIds == DOMAIN TEST_DEVICES \cup {"unknown_device"}

DeviceLists == UNION {[1..n -> DeviceIds] : n \in 0..MaxDevices}

DeviceTypes ==
  {List(<<>>), List(<<"real">>), List(<<"virtual">>), List(<<"real", "virtual">>),
   Str("real"), Str("virtual")}

\* paths a diff may list
Paths ==
  {"auth/foo.cc",
   "functions/src/common.cc",
   "database/src/android/Db.java",
   "storage/src/ios/st.mm",
   "firestore/src/desktop/fs.cc",
   "external/pip.txt",
   "release_build_files/readme.md",
   "README.md",
   "docs/notes.txt",
   "app/src/desktop/android_jni.cc"}

ChangedSets == {S \in SUBSET Paths : Cardinality(S) <= MaxPaths}

\* (parm_key, value) pairs handed to filter_values_on_diff
DiffQueries ==
  {<<"apis", v>> : v \in {"auth,functions", "functions", "functions,auth",
                          "storage,database,firestore", "",
                          PARAMETERS.integration_tests.config.apis}}
  \cup {<<"platform", v>> : v \in {<<"Android", "iOS">>, <<"iOS", "Android">>,
                                   <<"Desktop", "Android", "iOS", "tvOS">>,
                                   <<"tvOS">>, <<"Desktop">>, <<>>,
                                   <<"Android", "tvOS">>,
                                   <<"iOS", "iOS", "Desktop">>}}
  \cup {<<"os", <<"ubuntu-latest", "macos-latest">>>>, <<"mobile_test_on", "real,virtual">>}

\* command lines: the values parse_cmdline_args can give for each flag.  The
\* key "expanded", whose value is a dict, is left out.
MainWorkflows == {DEFAULT_WORKFLOW, "integration_tests", "nonexistent_workflow"}

MainKeys ==
  {"os", "xcode_version", "platform", "android_device", "apis", "mobile_test_on",
   "not_a_real_key", "android_min"}

MainArgs ==
  [config : BOOLEAN,
   workflow : MainWorkflows,
   expanded : {None, Str("1"), Str("0")},
   parm_key : MainKeys,
   auto_diff : {None, Str("main")},
   override : {None, Str(""), Str("custom_a,custom_b")},
   device : BOOLEAN,
   device_type : {List(<<"real", "virtual">>), Str("real")}]

\* paths the diff of a run of main may list
MainPaths ==
  {"auth/foo.cc", "database/src/android/Db.java", "storage/src/ios/st.mm",
   "external/pip.txt", "docs/notes.txt"}

MainChangedSets == {S \in SUBSET MainPaths : Cardinality(S) <= MaxPaths}

\* whether a run reaches filter_values_on_diff, and so runs git diff
RunsDiff(a) ==
  /\ ~TruthyStr(a.override)
  /\ ~a.device
  /\ TruthyStr(a.auto_diff)
  /\ get_value(a.workflow, parse_expanded(a.expanded), a.parm_key, a.config).status = "return"

\* what the server may answer: a status and a body, parsed when it is JSON;
\* or no answer at all
Responses ==
  {[status_code |-> "200", raw |-> "{\"total_count\": \"1\", \"items\": [\"issue-7\"]}",
    json |-> Obj([total_count |-> JStr("1"), items |-> Arr(<<"issue-7">>)])],
   [status_code |-> "200", raw |-> "{\"total_count\": \"1\", \"artifacts\": [\"log-1\"]}",
    json |-> Obj([total_count |-> JStr("1"), artifacts |-> Arr(<<"log-1">>)])],
   [status_code |-> "200", raw |-> "[\"comment-1\", \"comment-2\"]",
    json |-> Arr(<<"comment-1", "comment-2">>)],
   [status_code |-> "201", raw |-> "{\"number\": \"7\"}",
    json |-> Obj([number |-> JStr("7")])],
   [status_code |-> "404", raw |-> "{\"message\": \"Not Found\"}",
    json |-> Obj([message |-> JStr("Not Found")])],
   [status_code |-> "204", raw |-> ""],
   [exception |-> "ConnectionError"]}

Tokens == {"secret"}
Numbers == {7, 42}
Labels == {"nightly-testing"}
Comments == {"", "Tests passed"}

\* the calls of the client: function name and arguments
GithubCalls ==
  {<<"create_issue", t, "Nightly failed", l>> : t \in Tokens, l \in Labels}
  \cup {<<"update_issue", t, n, "{\"title\": \"Nightly\"}">> : t \in Tokens, n \in Numbers}
  \cup {<<f, t, n>> : f \in {"open_issue", "close_issue"}, t \in Tokens, n \in Numbers}
  \cup {<<f, t, n, c>> : f \in {"update_issue_comment", "add_comment", "update_comment"},
                         t \in Tokens, n \in Numbers, c \in Comments}
  \cup {<<"search_issues_by_label", l>> : l \in Labels}
  \cup {<<"list_comments", n>> : n \in Numbers}
  \cup {<<"delete_comment", t, n>> : t \in Tokens, n \in Numbers}
  \cup {<<f, t, n, l>> : f \in {"add_label", "delete_label"},
                         t \in Tokens, n \in Numbers, l \in Labels}
  \cup {<<"list_artifacts", t, n>> : t \in Tokens, n \in Numbers}
  \cup {<<"download_artifact", t, n, "artifact.zip">> : t \in Tokens, n \in Numbers}

\* the outcome of call c answered by response
GithubOutcome(c, response) ==
  CASE c[1] = "create_issue" -> create_issue(c[2], c[3], c[4], response)
    [] c[1] = "update_issue" -> update_issue(c[2], c[3], c[4], response)
    [] c[1] = "open_issue" -> open_issue(c[2], c[3], response)
    [] c[1] = "close_issue" -> close_issue(c[2], c[3], response)
    [] c[1] = "update_issue_comment" -> update_issue_comment(c[2], c[3], c[4], response)
    [] c[1] = "search_issues_by_label" -> search_issues_by_label(c[2], response)
    [] c[1] = "list_comments" -> list_comments(c[2], response)
    [] c[1] = "add_comment" -> add_comment(c[2], c[3], c[4], response)
    [] c[1] = "update_comment" -> update_comment(c[2], c[3], c[4], response)
    [] c[1] = "delete_comment" -> delete_comment(c[2], c[3], response)
    [] c[1] = "add_label" -> add_label(c[2], c[3], c[4], response)
    [] c[1] = "delete_label" -> delete_label(c[2], c[3], c[4], response)
    [] c[1] = "list_artifacts" -> list_artifacts(c[2], c[3], response)
    [] c[1] = "download_artifact" -> download_artifact(c[2], c[3], c[4], response)

(***************************************************************************)
(* The state machine: one action per call.                                 *)
(***************************************************************************)
Init ==
  /\ op = "none"
  /\ args = <<>>
  /\ result = Return(None)
  /\ stdout = <<>>
  /\ stderr = <<>>
  /\ log = <<>>
  /\ sent = <<>>
  /\ files = <<>>

\* every call is made in a fresh process
Fresh == op = "none"

CallGetValue ==
  \E workflow \in Workflows, use_expanded \in BOOLEAN,
     parm_key \in ParmKeys, config_parms_only \in BOOLEAN :
    /\ Fresh
    /\ op' = "get_value"
    /\ args' = [workflow |-> workflow, use_expanded |-> use_expanded,
                parm_key |-> parm_key, config_parms_only |-> config_parms_only]
    /\ result' = get_value(workflow, use_expanded, parm_key, config_parms_only)
    /\ stdout' = <<>>
    /\ stderr' = <<>>
    /\ log' = <<>>
    /\ sent' = <<>>
    /\ files' = <<>>

CallFilterDevices ==
  \E devices \in DeviceLists, device_type \in DeviceTypes :
    /\ Fresh
    /\ op' = "filter_devices"
    /\ args' = [devices |-> devices, device_type |-> device_type]
    /\ result' = filter_devices(devices, device_type)
    /\ stdout' = <<>>
    /\ stderr' = <<>>
    /\ log' = <<>>
    /\ sent' = <<>>
    /\ files' = <<>>

CallFilterValuesOnDiff ==
  \E q \in DiffQueries, changed \in ChangedSets :
    \E order \in IterationOrders(file_list(git_diff_output(changed))) :
      \E r \in {filter_values_on_diff(q[1], q[2], order)} :
         /\ Fresh
         /\ op' = "filter_values_on_diff"
         /\ args' = [parm_key |-> q[1], value |-> q[2], changed |-> changed,
                     order |-> order]
         /\ result' = Return(r.value)
         /\ stdout' = <<>>
         /\ stderr' = r.stderr
         /\ log' = <<>>
         /\ sent' = <<>>
         /\ files' = <<>>

\* a run that never reads the diff
RunMain ==
  \E a \in MainArgs :
    /\ Fresh
    /\ ~RunsDiff(a)
    /\ \E r \in {main(a, <<>>)} :
          /\ op' = "main"
          /\ args' = [argv |-> a, changed |-> {}, order |-> <<>>]
          /\ result' = r.result
          /\ stdout' = r.stdout
          /\ stderr' = r.stderr
          /\ log' = <<>>
          /\ sent' = <<>>
          /\ files' = <<>>

\* a run that filters the value on the diff against the base branch
RunMainWithDiff ==
  \E a \in MainArgs :
    /\ Fresh
    /\ RunsDiff(a)
    /\ \E changed \in MainChangedSets :
         \E order \in IterationOrders(file_list(git_diff_output(changed))) :
           \E r \in {main(a, order)} :
              /\ op' = "main"
              /\ args' = [argv |-> a, changed |-> changed, order |-> order]
              /\ result' = r.result
              /\ stdout' = r.stdout
              /\ stderr' = r.stderr
              /\ log' = <<>>
              /\ sent' = <<>>
              /\ files' = <<>>

\* one call of a function of the REST client
CallGithub ==
  \E c \in GithubCalls, response \in Responses :
    \E r \in {GithubOutcome(c, response)} :
       /\ Fresh
       /\ op' = c[1]
       /\ args' = [call |-> c, response |-> response]
       /\ result' = r.result
       /\ stdout' = <<>>
       /\ stderr' = <<>>
       /\ log' = r.log
       /\ sent' = r.sent
       /\ files' = r.files

Next ==
  \/ CallGetValue
  \/ CallFilterDevices
  \/ CallFilterValuesOnDiff
  \/ RunMain
  \/ RunMainWithDiff
  \/ CallGithub

Spec == Init /\ [][Next]_vars

(***************************************************************************)
(* The fallback chain as the documentation states it, read off PARAMETERS  *)
(* without get_value: the workflow's expanded and standard blocks, then    *)
(* the default workflow's, keeping the blocks that exist and, of the       *)
(* expanded ones, only those asked for.                                    *)
(***************************************************************************)
BlockExists(ref) ==
  /\ ref[1] \in DOMAIN PARAMETERS
  /\ ref[2] \in DOMAIN PARAMETERS[ref[1]]
  /\ Len(ref) = 3 => EXPANDED_KEY \in DOMAIN PARAMETERS[ref[1]][ref[2]]

Chain(workflow, use_expanded, kind) ==
  LET own == IF workflow # DEFAULT_WORKFLOW
             THEN <<<<workflow, kind, EXPANDED_KEY>>, <<workflow, kind>>>>
             ELSE <<>>
      all == own \o <<<<DEFAULT_WORKFLOW, kind, EXPANDED_KEY>>, <<DEFAULT_WORKFLOW, kind>>>>
      Searched(ref) == BlockExists(ref) /\ (Len(ref) = 3 => use_expanded)
  IN SelectSeq(all, Searched)

\* the places of the chain whose block holds the key
Holders(chain, parm_key) == {i \in DOMAIN chain : parm_key \in DOMAIN Block(chain[i])}

FirstHolder(chain, parm_key) ==
  CHOOSE i \in Holders(chain, parm_key) : \A j \in Holders(chain, parm_key) : i <= j

ArgsChain == Chain(args.workflow, args.use_expanded, parm_type_key(args.config_parms_only))

\* C1 (as claimed): for every workflow, expanded flag, key and parameter kind,
\* get_value returns the key's value from the first block of the chain
\* (expanded workflow, standard workflow, expanded default, standard default;
\* missing blocks skipped, expanded blocks only with use_expanded) holding it.
C1_FirstBlockWins ==
  (op = "get_value" /\ Holders(ArgsChain, args.parm_key) # {}) =>
     result = Return(Block(ArgsChain[FirstHolder(ArgsChain, args.parm_key)])[args.parm_key])

\* C2 (as claimed): a key held by none of the searched blocks always makes
\* get_value fail with KeyError, for every workflow, expanded flag and kind.
C2_MissingKeyIsKeyError ==
  (op = "get_value" /\ Holders(ArgsChain, args.parm_key) = {}) =>
     result = Raise("KeyError")

\* the default workflow's searched blocks of the queried kind
DefaultChain == Chain(DEFAULT_WORKFLOW, args.use_expanded, parm_type_key(args.config_parms_only))

\* the named workflow's own searched blocks (none when it has no entry)
OwnChain ==
  SelectSeq(ArgsChain, LAMBDA ref : ref[1] # DEFAULT_WORKFLOW)

C3_Case ==
  /\ op = "get_value"
  /\ args.workflow # DEFAULT_WORKFLOW
  /\ Holders(DefaultChain, args.parm_key) # {}
  /\ Holders(OwnChain, args.parm_key) = {}

\* C3: a key of the default (desktop) block that the named workflow's blocks
\* do not hold, or whose workflow has no entry at all, is answered with the
\* default block's value: what get_value gives for the default workflow with
\* the same expanded flag and kind.
C3_FallsBackToDefault ==
  C3_Case =>
     /\ result = Return(Block(DefaultChain[FirstHolder(DefaultChain, args.parm_key)])[args.parm_key])
     /\ result = get_value(DEFAULT_WORKFLOW, args.use_expanded, args.parm_key,
                           args.config_parms_only)

\* C3 witness: a workflow with no entry, and a workflow with blocks lacking the
\* key, each answered from the default block
C3_Witness ==
  /\ C3_Case
  /\ args.workflow = "ios"
  /\ args.parm_key = "os"
  /\ args.use_expanded
  /\ result = Return(<<"ubuntu-latest", "macos-latest", "windows-latest">>)

\* the expanded block of the queried workflow and kind
ArgsExpandedRef == <<args.workflow, parm_type_key(args.config_parms_only), EXPANDED_KEY>>

ArgsFound ==
  found_block(args.workflow, args.use_expanded, args.parm_key, args.config_parms_only)

C4_Case ==
  /\ op = "get_value"
  /\ BlockExists(ArgsExpandedRef)
  /\ args.parm_key \in DOMAIN Block(ArgsExpandedRef)

\* C4: for a key of a workflow's expanded block, get_value with use_expanded
\* returns the value read from that expanded block (not from the workflow's
\* standard block nor from a default block); without use_expanded the value
\* is read from a standard block, never from the expanded one.  Blocks are
\* told apart by their place in PARAMETERS: the android "os" lists of the
\* standard and the expanded block are equal as values.
C4_ExpandedOverrides ==
  C4_Case =>
     IF args.use_expanded
     THEN /\ ArgsFound = Return(ArgsExpandedRef)
          /\ result = Return(Block(ArgsExpandedRef)[args.parm_key])
     ELSE /\ ArgsFound.status = "return"
          /\ Len(ArgsFound.value) = 2
          /\ result = Return(Block(ArgsFound.value)[args.parm_key])

\* C4 witness: ios overrides xcode_version in its expanded block
C4_Witness ==
  /\ C4_Case
  /\ args.workflow = "ios"
  /\ args.parm_key = "xcode_version"
  /\ args.use_expanded
  /\ result = Return(<<"12", "12.4">>)

(***************************************************************************)
(* Claims about filter_values_on_diff with key "apis".                     *)
(***************************************************************************)
TopDir(path) == split(path, "/")[1]

IgnoredDirs == {d \in DOMAIN custom_triggers : custom_triggers[d] = None}

TriggerDirs == DOMAIN custom_triggers \ IgnoredDirs

RequestedApis == ToSet(split(args.value, ","))

ChangedTopDirs == {TopDir(path) : path \in args.changed}

ApisCall == op = "filter_values_on_diff" /\ args.parm_key = "apis"

\* the APIs the changed directories trigger
TriggeredApis ==
  (ChangedTopDirs \cap RequestedApis)
  \cup UNION {ToSet(split(custom_triggers[d].str, ",")) : d \in ChangedTopDirs \cap TriggerDirs}

\* C5 (as claimed): with key "apis", when every changed path lies in an
\* ignored directory, a trigger directory or a requested API's directory, the
\* result is the sorted comma-joined union of the requested APIs whose
\* directory changed and the APIs of every changed trigger directory, also
\* when the trigger directory auth is not itself requested.
C5_TriggeredUnion ==
  (ApisCall /\ ChangedTopDirs \subseteq (IgnoredDirs \cup TriggerDirs \cup RequestedApis)) =>
     result = Return(join(",", sorted(TriggeredApis)))

C6_Case ==
  /\ ApisCall
  /\ \E path \in args.changed :
       TopDir(path) \notin (IgnoredDirs \cup TriggerDirs \cup RequestedApis)

\* C6: with key "apis", one changed path whose top-level directory is neither
\* ignored, nor a trigger, nor a requested API makes the function return the
\* value string exactly as passed, whatever the other paths are and in
\* whatever order the paths are visited.
C6_UnknownDirReturnsOriginal ==
  C6_Case =>
     /\ result = Return(args.value)
     /\ stderr = <<"Defaulting to all APIs: " \o args.value \o "\n">>

\* C6 witness: an unsorted request, a recognised path visited first and the
\* unknown one after it
C6_Witness ==
  /\ C6_Case
  /\ args.value = "functions,auth"
  /\ args.order = <<"functions/src/common.cc", "docs/notes.txt">>
  /\ result = Return("functions,auth")

(***************************************************************************)
(* Claims about filter_values_on_diff with key "platform".                 *)
(***************************************************************************)
PlatformCall == op = "filter_values_on_diff" /\ args.parm_key = "platform"

MatchesNoPattern(path) ==
  ~(IgnorablePath(path) \/ AndroidPath(path) \/ IosPath(path) \/ DesktopPath(path))

C7_Case == PlatformCall /\ \E path \in args.changed : MatchesNoPattern(path)

\* C7 (as claimed): with key "platform", a changed path matching none of the
\* android, ios, desktop or ignorable patterns makes the function return the
\* requested list unchanged: the same elements in the same order.
C7_FallbackReturnsListUnchanged ==
  C7_Case => result = Return(args.value)

\* C7 (amended): in that case the function returns all the requested
\* platforms, each once, in ascending code point order; that is the list
\* passed in only when it is already sorted and free of duplicates.
C7_FallbackReturnsSortedRequested ==
  C7_Case =>
     /\ result.status = "return"
     /\ ToSet(result.value) = ToSet(args.value)
     /\ \A i, j \in DOMAIN result.value :
          i < j => StrLess(result.value[i], result.value[j])
     /\ stderr = <<"Defaulting to all platforms: " \o join(",", result.value) \o "\n">>

\* C7 witness: the integration_tests platform list, not sorted, comes back sorted
C7_Witness ==
  /\ C7_Case
  /\ args.value = <<"Desktop", "Android", "iOS", "tvOS">>
  /\ result = Return(<<"Android", "Desktop", "iOS", "tvOS">>)

\* the platforms that have a path pattern
PatternPlatforms == {"Android", "iOS", "Desktop"}

\* the call wrote the line of the fallback to all requested platforms
FallbackTaken ==
  Len(stderr) = 1 /\ StartsWith(stderr[1], "Defaulting to all platforms: ")

\* C11: with key "platform" the list returned holds only requested platforms,
\* each at most once; a platform is not added for a path of its pattern when
\* it was not requested, and a platform without a pattern (tvOS) is in the
\* result only when the fallback to all requested platforms was taken.
C11_OnlyRequestedPlatforms ==
  PlatformCall =>
    /\ result.status = "return"
    /\ ToSet(result.value) \subseteq ToSet(args.value)
    /\ \A i, j \in DOMAIN result.value : result.value[i] = result.value[j] => i = j
    /\ \A p \in ToSet(result.value) : p \notin PatternPlatforms => FallbackTaken

\* C11 witness: Android and tvOS are requested and the one changed path is of
\* the android and desktop patterns: Android alone comes back, without the
\* unrequested Desktop and without tvOS
C11_Witness ==
  /\ PlatformCall
  /\ args.value = <<"Android", "tvOS">>
  /\ args.changed = {"app/src/desktop/android_jni.cc"}
  /\ DesktopPath("app/src/desktop/android_jni.cc")
  /\ ~FallbackTaken
  /\ result = Return(<<"Android">>)

(***************************************************************************)
(* Claims about filter_devices.                                            *)
(***************************************************************************)
\* the devices of a list whose registered type is among the types, in order
RECURSIVE DevicesOfTypes(_, _)
DevicesOfTypes(devices, types) ==
  IF devices = <<>> THEN <<>>
  ELSE (IF TEST_DEVICES[Head(devices)].type \in types THEN <<Head(devices)>> ELSE <<>>)
       \o DevicesOfTypes(Tail(devices), types)

C8_Case ==
  /\ op = "filter_devices"
  /\ "list" \in DOMAIN args.device_type
  /\ ToSet(args.devices) \subseteq DOMAIN TEST_DEVICES

\* C8: filter_devices returns exactly the devices of the input list whose
\* registered type is one of the requested types, in input order and with
\* nothing added; both types requested give the whole list, none the empty one.
C8_FilterDevicesByType ==
  C8_Case =>
     /\ result = Return(DevicesOfTypes(args.devices, ToSet(args.device_type.list)))
     /\ ToSet(args.device_type.list) = {"real", "virtual"} => result = Return(args.devices)
     /\ args.device_type.list = <<>> => result = Return(<<>>)

\* C8 witness: the documented example
C8_Witness ==
  /\ C8_Case
  /\ args.devices = <<"android_min", "emulator_target">>
  /\ args.device_type = List(<<"virtual">>)
  /\ result = Return(<<"emulator_target">>)

(***************************************************************************)
(* Claims about main.                                                      *)
(***************************************************************************)
\* the key of a run is held by no block of the fallback chain
Unresolvable(a) ==
  Holders(Chain(a.workflow, parse_expanded(a.expanded), parm_type_key(a.config)),
          a.parm_key) = {}

EndsInError == result.status = "raise" /\ stdout = <<>>

\* C9 (as claimed): every run of main with a key that cannot be resolved in
\* the configuration ends with an error that terminates the process and
\* prints no value, whatever the other flags are.
C9_UnresolvableKeyFails ==
  (op = "main" /\ Unresolvable(args.argv)) => EndsInError

C9_Case ==
  /\ op = "main"
  /\ Unresolvable(args.argv)
  /\ ~TruthyStr(args.argv.override)
  /\ ~(args.argv.device /\ args.argv.parm_key \in DOMAIN TEST_DEVICES)

\* C9 (amended): a run of main given no non-empty override value, with a key
\* that cannot be resolved in the configuration, ends with an error that
\* terminates the process and prints no value, for every combination of the
\* expanded, config and base-branch flags; the exception is the device-type
\* query mode with a registered device id as key, which prints its type.
C9_UnresolvableKeyFailsWithoutOverride ==
  C9_Case => EndsInError

\* C9 witness: an unknown key with the expanded and base-branch flags set
C9_Witness ==
  /\ C9_Case
  /\ args.argv.parm_key = "not_a_real_key"
  /\ args.argv.workflow = "integration_tests"
  /\ args.argv.auto_diff = Str("main")
  /\ args.argv.expanded = Str("1")
  /\ ~args.argv.config
  /\ result = Raise("KeyError")
  /\ stdout = <<>>

(***************************************************************************)
(* Claims about the REST client.                                           *)
(***************************************************************************)
ReadOps == {"search_issues_by_label", "list_comments", "list_artifacts"}

WriteOps ==
  {"create_issue", "update_issue", "open_issue", "close_issue", "update_issue_comment",
   "add_comment", "update_comment", "delete_comment", "add_label", "delete_label"}

\* the server answered the call
Answered == "status_code" \in DOMAIN args.response

\* the server answered with a JSON body
AnsweredJson == "json" \in DOMAIN args.response

\* the server answered with a JSON object holding the member
AnsweredMember(key) ==
  /\ AnsweredJson
  /\ "object" \in DOMAIN args.response.json
  /\ key \in DOMAIN args.response.json.object

OnlyLogs == result = Return(None) /\ Len(log) = 1 /\ files = <<>>

\* C10 (as claimed): answered with JSON, the read operations
\* (search_issues_by_label, list_comments, list_artifacts) return the parsed
\* JSON of the response, and every write operation returns no value and only
\* logs the response.
C10_ReadsReturnJsonWritesOnlyLog ==
  /\ (op = "list_comments" /\ AnsweredJson) => result = Return(args.response.json)
  /\ (op = "search_issues_by_label" /\ AnsweredMember("items")) =>
        result = Return(args.response.json)
  /\ (op = "list_artifacts" /\ AnsweredMember("artifacts")) =>
        result = Return(args.response.json)
  /\ (op \in WriteOps /\ AnsweredJson) => OnlyLogs

\* C10 (amended): list_comments returns the parsed JSON of the response;
\* search_issues_by_label and list_artifacts return its "items" and its
\* "artifacts" member; create_issue, a write, returns the parsed JSON too;
\* every other write operation returns no value and only logs the response.
C10_ReturnValuesByOperation ==
  /\ (op \in {"list_comments", "create_issue"} /\ AnsweredJson) =>
        result = Return(args.response.json) /\ Len(log) = 1
  /\ (op = "search_issues_by_label" /\ AnsweredMember("items")) =>
        result = Return(args.response.json.object.items) /\ Len(log) = 1
  /\ (op = "list_artifacts" /\ AnsweredMember("artifacts")) =>
        result = Return(args.response.json.object.artifacts) /\ Len(log) = 1
  /\ (op \in WriteOps \ {"create_issue"} /\ Answered) => OnlyLogs

\* C10 witness: create_issue hands back the created issue
C10_Witness ==
  /\ op = "create_issue"
  /\ AnsweredJson
  /\ args.response.status_code = "201"
  /\ result = Return(Obj([number |-> JStr("7")]))
  /\ log = <<"create_issue: https://api.github.com/repos/firebase/firebase-cpp-sdk/issues response: <Response [201]>">>

====
